---- MODULE Spec2Model ----
(***************************************************************************)
(* Model of src/app.py: the Streamlit review analyzer.  One upload is      *)
(* parsed, the review column is resolved, and on the button click every    *)
(* row is sent to the text-generation service, its result appended, the    *)
(* progress reported and the fixed delay slept; the result table is then   *)
(* serialized to CSV and offered for download.                             *)
(*                                                                         *)
(* Text is a sequence of symbols: a cell value, a prompt, a response and   *)
(* an analysis are all sequences, and the fixed pieces of the prompt       *)
(* template and of the error message are single symbols.                   *)
(***************************************************************************)
EXTENDS Integers, Sequences, FiniteSets, TLC

VARIABLES
    pc,             \* position of the script
    df,             \* the parsed dataset: [columns, rows]
    review_col,     \* the resolved review column, or None
    error_cols,     \* the column list shown by st.error, <<>> when none shown
    results,        \* the list of result dicts
    i,              \* the loop index (0-based, as df.iterrows() yields it)
    prompt,         \* the prompt of the current row
    analysis_text,  \* the analysis of the current row
    log,            \* the observable steps of the run, in order
    sent,           \* the prompts handed to model.generate_content, in order
    outcomes,       \* what each call returned or raised, in order
    progress,       \* the last fraction given to progress_bar.progress
    result_df,      \* pd.DataFrame(results): [columns, rows]
    csv,            \* result_df.to_csv(index=False): a sequence of lines
    download,       \* the download button, <<>> when none is offered
    pf_rows,        \* rows whose prompts are compared
    pf_prompts      \* their prompts

vars == <<pc, df, review_col, error_cols, results, i, prompt, analysis_text,
          log, sent, outcomes, progress, result_df, csv, download,
          pf_rows, pf_prompts>>

runVars == <<results, i, prompt, analysis_text, log, sent, outcomes, progress>>
outVars == <<result_df, csv, download>>
pfVars == <<pf_rows, pf_prompts>>

(***************************************************************************)
(* Bounds of the inputs.                                                   *)
(***************************************************************************)
MaxRows == 2
MaxCols == 3
MaxLen == 2

Range(s) == {s[k] : k \in 1..Len(s)}

SeqsUpTo(S, n) == UNION {[1..k -> S] : k \in 0..n}

None == "None"

(***************************************************************************)
(* The uploaded file.                                                      *)
(***************************************************************************)
possible_review_cols == <<"review", "review_text", "text", "comment">>

ColumnNames == Range(possible_review_cols) \cup {"product_name", "rating", "Review"}

\* pandas keeps column labels distinct
ColumnLists ==
    {s \in UNION {[1..k -> ColumnNames] : k \in 1..MaxCols} :
        \A a, b \in 1..Len(s) : a # b => s[a] # s[b]}

RowKinds == {"a", "b"}

\* the value of column c in a row of kind k
Cell(c, k) == <<c, k>>

RowOf(cols, k) == [c \in Range(cols) |-> Cell(c, k)]

NoDf == [columns |-> <<>>, rows |-> <<>>]

CsvFile(cols, kinds) ==
    [kind |-> "csv", columns |-> cols,
     rows |-> [n \in 1..Len(kinds) |-> RowOf(cols, kinds[n])]]

MalformedFile == [kind |-> "malformed", columns |-> <<>>, rows |-> <<>>]

Files ==
    {MalformedFile} \cup
    {CsvFile(cols, kinds) : cols \in ColumnLists, kinds \in SeqsUpTo(RowKinds, MaxRows)}

(***************************************************************************)
(* Column resolution: the first candidate, in the order of the candidate   *)
(* list, that is a column of the dataset.                                  *)
(***************************************************************************)
RECURSIVE ResolveFrom(_, _)
ResolveFrom(n, cols) ==
    IF n > Len(possible_review_cols) THEN None
    ELSE IF possible_review_cols[n] \in Range(cols) THEN possible_review_cols[n]
    ELSE ResolveFrom(n + 1, cols)

\* variant: the first column of the dataset that is a candidate
ResolveDatasetOrder(cols) ==
    LET hits == {k \in 1..Len(cols) : cols[k] \in Range(possible_review_cols)}
    IN  IF hits = {} THEN None
        ELSE cols[CHOOSE k \in hits : \A m \in hits : k <= m]

\* variant: with no candidate present, fall back to the first column
ResolveFallback(cols) ==
    IF ResolveFrom(1, cols) = None THEN cols[1] ELSE ResolveFrom(1, cols)

Resolve(cols) == ResolveFrom(1, cols)

(***************************************************************************)
(* The prompt: the fixed template with the review text and the rating in   *)
(* its two slots.                                                          *)
(***************************************************************************)
PromptHead == "Analyze this Myntra product review: Review: <quote>"
PromptMid == "<quote>  # Dynamic column <newline> Rating: "
PromptTail == "<newline> Provide a concise analysis in this exact format: 1. Sentiment 2. Key points 3. Recommendation"

\* variant: the rating is left out of the prompt
PromptOfNoRating(row, col) ==
    <<PromptHead>> \o row[col] \o <<PromptMid, PromptTail>>

PromptOf(row, col) ==
    <<PromptHead>> \o row[col] \o <<PromptMid>> \o row["rating"] \o <<PromptTail>>

(***************************************************************************)
(* The service: a call returns a text or raises with a detail.             *)
(***************************************************************************)
Whitespace == {" ", "\n"}

Responses ==
    {<<" ", "Sentiment:", " ", "Positive", "\n">>, <<"Sentiment: Negative">>}

Failures == {<<"429 quota exceeded">>}

Outcomes ==
    {[ok |-> TRUE, text |-> t] : t \in Responses} \cup
    {[ok |-> FALSE, text |-> d] : d \in Failures}

RECURSIVE LStrip(_)
LStrip(t) ==
    IF t # <<>> /\ Head(t) \in Whitespace THEN LStrip(Tail(t)) ELSE t

RECURSIVE RStrip(_)
RStrip(t) ==
    IF t # <<>> /\ t[Len(t)] \in Whitespace
    THEN RStrip(SubSeq(t, 1, Len(t) - 1)) ELSE t

Strip(t) == RStrip(LStrip(t))

ErrorHead == "Error: Could not analyze review."

ErrorText(detail) == <<ErrorHead, " (">> \o detail \o <<")">>

AnalysisOf(outcome) ==
    IF outcome.ok THEN Strip(outcome.text) ELSE ErrorText(outcome.text)

(***************************************************************************)
(* The result table and its CSV form.                                      *)
(***************************************************************************)
ResultKeys == <<"product_name", "review", "rating", "analysis">>

ResultRow(row, col, analysis) ==
    [product_name |-> row["product_name"], review |-> row[col],
     rating |-> row["rating"], analysis |-> analysis]

\* pd.DataFrame takes its columns from the keys of the dicts it is given
DataFrame(res) ==
    [columns |-> IF res = <<>> THEN <<>> ELSE ResultKeys, rows |-> res]

\* to_csv(index=False): the header line, then one line per row
ToCsv(d) ==
    <<[k \in 1..Len(d.columns) |-> <<d.columns[k]>>]>> \o
    [n \in 1..Len(d.rows) |-> [k \in 1..Len(d.columns) |-> d.rows[n][d.columns[k]]]]

DownloadButton(data) ==
    <<[data |-> data, file_name |-> "myntra_review_analysis.csv", mime |-> "text/csv"]>>

(***************************************************************************)
(* The script.                                                             *)
(***************************************************************************)
Init ==
    /\ pc = "idle"
    /\ df = NoDf
    /\ review_col = None
    /\ error_cols = <<>>
    /\ results = <<>>
    /\ i = 0
    /\ prompt = <<>>
    /\ analysis_text = <<>>
    /\ log = <<>>
    /\ sent = <<>>
    /\ outcomes = <<>>
    /\ progress = <<>>
    /\ result_df = NoDf
    /\ csv = <<>>
    /\ download = <<>>
    /\ pf_rows = <<>>
    /\ pf_prompts = <<>>

\* variant: the button is rendered whatever the resolution gave
ButtonAlwaysShown(col) == TRUE

\* the button is rendered only in the else branch of "review_col is None"
ButtonShown(col) == col # None

\* pd.read_csv raises on a malformed file and the script stops there
UploadMalformed ==
    /\ pc = "idle"
    /\ \E f \in Files :
        /\ f.kind = "malformed"
        /\ pc' = "parse_error"
    /\ UNCHANGED <<df, review_col, error_cols, runVars, outVars, pfVars>>

\* a file that parses: the dataset is loaded and its review column resolved
UploadCsv ==
    /\ pc = "idle"
    /\ \E f \in Files :
        /\ f.kind = "csv"
        /\ df' = [columns |-> f.columns, rows |-> f.rows]
        /\ review_col' = Resolve(f.columns)
        /\ error_cols' = IF Resolve(f.columns) = None THEN f.columns ELSE <<>>
        /\ pc' = IF ButtonShown(Resolve(f.columns)) THEN "ready" ELSE "no_column"
    /\ UNCHANGED <<runVars, outVars, pfVars>>

\* "Analyze Reviews" is clicked
Click ==
    /\ pc = "ready"
    /\ results' = <<>>
    /\ progress' = <<0, 1>>
    /\ i' = 0
    /\ pc' = "loop"
    /\ UNCHANGED <<df, review_col, error_cols, prompt, analysis_text, log, sent,
                   outcomes, outVars, pfVars>>

CurrentRow == df.rows[i + 1]

Has(row, c) == c \in DOMAIN row

\* the f-string reads row[review_col] and row['rating']
BuildPrompt ==
    /\ pc = "loop"
    /\ i < Len(df.rows)
    /\ Has(CurrentRow, review_col) /\ Has(CurrentRow, "rating")
    /\ prompt' = PromptOf(CurrentRow, review_col)
    /\ pc' = "call"
    /\ UNCHANGED <<df, review_col, error_cols, results, i, analysis_text, log,
                   sent, outcomes, progress, outVars, pfVars>>

\* a missing column is a KeyError outside the try: the script stops
BuildPromptKeyError ==
    /\ pc = "loop"
    /\ i < Len(df.rows)
    /\ ~(Has(CurrentRow, review_col) /\ Has(CurrentRow, "rating"))
    /\ pc' = "crashed"
    /\ UNCHANGED <<df, review_col, error_cols, runVars, outVars, pfVars>>

\* variant: a failed call ends the run
CallServiceFatal ==
    /\ pc = "call"
    /\ \E o \in Outcomes :
        /\ outcomes' = Append(outcomes, o)
        /\ analysis_text' = AnalysisOf(o)
        /\ pc' = IF o.ok THEN "append" ELSE "crashed"
    /\ sent' = Append(sent, prompt)
    /\ log' = Append(log, <<"call", i>>)
    /\ UNCHANGED <<df, review_col, error_cols, results, i, prompt, progress,
                   outVars, pfVars>>

\* variant: a failed call is made again
CallServiceRetry ==
    /\ pc = "call"
    /\ \E o \in Outcomes :
        /\ outcomes' = Append(outcomes, o)
        /\ analysis_text' = AnalysisOf(o)
        /\ pc' = IF o.ok THEN "append" ELSE "call"
    /\ sent' = Append(sent, prompt)
    /\ log' = Append(log, <<"call", i>>)
    /\ UNCHANGED <<df, review_col, error_cols, results, i, prompt, progress,
                   outVars, pfVars>>

\* the try/except: one call, its text stripped or its failure put into words
CallService ==
    /\ pc = "call"
    /\ \E o \in Outcomes :
        /\ outcomes' = Append(outcomes, o)
        /\ analysis_text' = AnalysisOf(o)
    /\ sent' = Append(sent, prompt)
    /\ log' = Append(log, <<"call", i>>)
    /\ pc' = "append"
    /\ UNCHANGED <<df, review_col, error_cols, results, i, prompt, progress,
                   outVars, pfVars>>

\* variant: the newest result is put first
AppendResultFront ==
    /\ pc = "append"
    /\ Has(CurrentRow, "product_name")
    /\ results' = <<ResultRow(CurrentRow, review_col, analysis_text)>> \o results
    /\ log' = Append(log, <<"append", i>>)
    /\ pc' = "progress"
    /\ UNCHANGED <<df, review_col, error_cols, i, prompt, analysis_text, sent,
                   outcomes, progress, outVars, pfVars>>

AppendResult ==
    /\ pc = "append"
    /\ Has(CurrentRow, "product_name")
    /\ results' = Append(results, ResultRow(CurrentRow, review_col, analysis_text))
    /\ log' = Append(log, <<"append", i>>)
    /\ pc' = "progress"
    /\ UNCHANGED <<df, review_col, error_cols, i, prompt, analysis_text, sent,
                   outcomes, progress, outVars, pfVars>>

\* variant: the missing column is recorded as the row's error
AppendKeyErrorCaught ==
    /\ pc = "append"
    /\ ~Has(CurrentRow, "product_name")
    /\ results' = Append(results,
            [product_name |-> <<>>, review |-> CurrentRow[review_col],
             rating |-> CurrentRow["rating"],
             analysis |-> ErrorText(<<"'product_name'">>)])
    /\ log' = Append(log, <<"append", i>>)
    /\ pc' = "progress"
    /\ UNCHANGED <<df, review_col, error_cols, i, prompt, analysis_text, sent,
                   outcomes, progress, outVars, pfVars>>

AppendKeyError ==
    /\ pc = "append"
    /\ ~Has(CurrentRow, "product_name")
    /\ pc' = "crashed"
    /\ UNCHANGED <<df, review_col, error_cols, runVars, outVars, pfVars>>

\* variant: no pause after a row whose call failed
ReportProgressNoPauseOnError ==
    /\ pc = "progress"
    /\ progress' = <<i + 1, Len(df.rows)>>
    /\ log' = Append(log, <<"progress", i>>)
    /\ IF outcomes[Len(outcomes)].ok
       THEN pc' = "sleep" /\ i' = i
       ELSE pc' = "loop" /\ i' = i + 1
    /\ UNCHANGED <<df, review_col, error_cols, results, prompt, analysis_text,
                   sent, outcomes, outVars, pfVars>>

ReportProgress ==
    /\ pc = "progress"
    /\ progress' = <<i + 1, Len(df.rows)>>
    /\ log' = Append(log, <<"progress", i>>)
    /\ pc' = "sleep"
    /\ UNCHANGED <<df, review_col, error_cols, results, i, prompt, analysis_text,
                   sent, outcomes, outVars, pfVars>>

\* time.sleep(0.5), then the next row
Sleep ==
    /\ pc = "sleep"
    /\ log' = Append(log, <<"sleep", i>>)
    /\ i' = i + 1
    /\ pc' = "loop"
    /\ UNCHANGED <<df, review_col, error_cols, results, prompt, analysis_text,
                   sent, outcomes, progress, outVars, pfVars>>

\* after the last row: the table, its CSV and the download button
Finish ==
    /\ pc = "loop"
    /\ i >= Len(df.rows)
    /\ result_df' = DataFrame(results)
    /\ csv' = ToCsv(DataFrame(results))
    /\ download' = DownloadButton(ToCsv(DataFrame(results)))
    /\ pc' = "done"
    /\ UNCHANGED <<df, review_col, error_cols, runVars, pfVars>>

Next ==
    \/ UploadMalformed
    \/ UploadCsv
    \/ Click
    \/ BuildPrompt
    \/ BuildPromptKeyError
    \/ CallService
    \/ AppendResult
    \/ AppendKeyError
    \/ ReportProgress
    \/ Sleep
    \/ Finish

Spec == Init /\ [][Next]_vars

(***************************************************************************)
(* The prompt as a function of the row: two rows are drawn and formatted.  *)
(***************************************************************************)
TextSymbols == {"a", PromptMid}

Texts == SeqsUpTo(TextSymbols, MaxLen) \ {<<>>}

ProductNames == {<<"Shoe A">>, <<"Shoe B">>}

PromptRows ==
    {[c \in {"product_name", "review", "rating"} |->
        CASE c = "product_name" -> p [] c = "review" -> r [] OTHER -> t] :
        p \in ProductNames, r \in Texts, t \in Texts}

InitPrompt ==
    /\ pc = "idle"
    /\ df = NoDf
    /\ review_col = None
    /\ error_cols = <<>>
    /\ results = <<>>
    /\ i = 0
    /\ prompt = <<>>
    /\ analysis_text = <<>>
    /\ log = <<>>
    /\ sent = <<>>
    /\ outcomes = <<>>
    /\ progress = <<>>
    /\ result_df = NoDf
    /\ csv = <<>>
    /\ download = <<>>
    /\ pf_rows \in [1..2 -> PromptRows]
    /\ pf_prompts = <<>>

FormatPrompts ==
    /\ pf_rows # <<>>
    /\ pf_prompts = <<>>
    /\ pf_prompts' = [n \in 1..2 |-> PromptOf(pf_rows[n], "review")]
    /\ UNCHANGED <<pc, df, review_col, error_cols, runVars, outVars, pf_rows>>

NextPrompt == FormatPrompts

SpecPrompt == InitPrompt /\ [][NextPrompt]_vars

(***************************************************************************)
(* Properties.                                                             *)
(***************************************************************************)
Candidates == Range(possible_review_cols)

Loaded == pc \notin {"idle", "parse_error"}

Columns == Range(df.columns)

NRows == Len(df.rows)

\* position of a candidate in the priority order
Priority(c) == CHOOSE n \in 1..Len(possible_review_cols) : possible_review_cols[n] = c

IsPrefix(s, t) == Len(s) <= Len(t) /\ \A k \in 1..Len(s) : s[k] = t[k]

\* a is t without its leading and trailing whitespace
IsTrimOf(a, t) ==
    /\ a # <<>> => a[1] \notin Whitespace /\ a[Len(a)] \notin Whitespace
    /\ \E lo \in 0..Len(t) :
        /\ lo + Len(a) <= Len(t)
        /\ \A k \in 1..Len(a) : a[k] = t[lo + k]
        /\ \A k \in 1..Len(t) : (k <= lo \/ k > lo + Len(a)) => t[k] \in Whitespace

\* C1: whenever the loaded dataset has at least one candidate column, the
\* resolved column is a column of the dataset, is a candidate, and no
\* candidate of higher priority is a column of the dataset; the position of
\* the columns in the dataset plays no part.
C1_FirstCandidateByPriority ==
    (Loaded /\ Columns \cap Candidates # {}) =>
        /\ review_col \in Columns \cap Candidates
        /\ \A c \in Columns \cap Candidates : Priority(review_col) <= Priority(c)

\* a dataset where "text" comes before "review" resolves to "review"
C1_Witness ==
    /\ pc = "ready"
    /\ \E a, b \in 1..Len(df.columns) :
        a < b /\ df.columns[a] = "text" /\ df.columns[b] = "review"
    /\ review_col = "review"

\* C2: whenever the loaded dataset has no candidate column, no column is
\* selected, the error shows exactly the dataset's column list, and the
\* script rests where no analysis can start: nothing was called, appended
\* or offered.
C2_NoCandidateFails ==
    (Loaded /\ Columns \cap Candidates = {}) =>
        /\ review_col = None
        /\ error_cols = df.columns
        /\ pc = "no_column"
        /\ ~ENABLED Click
        /\ sent = <<>> /\ log = <<>> /\ results = <<>>
        /\ csv = <<>> /\ download = <<>>

C2_Witness ==
    /\ pc = "no_column"
    /\ Len(df.columns) >= 2
    /\ Columns \cap Candidates = {}
    /\ error_cols = df.columns

\* C3: at every point the results are those of the first rows, in row
\* order, each with the product_name, resolved-column text and rating of
\* its row; a completed run has one result per row, and the table and the
\* CSV hold them in the same order.
C3_OneResultPerRowInOrder ==
    /\ Len(results) <= NRows
    /\ \A n \in 1..Len(results) :
        /\ results[n].product_name = df.rows[n]["product_name"]
        /\ results[n].review = df.rows[n][review_col]
        /\ results[n].rating = df.rows[n]["rating"]
    /\ pc = "done" =>
        /\ Len(results) = NRows
        /\ result_df.rows = results
        /\ Len(csv) = NRows + 1
        /\ \A n \in 1..NRows :
            csv[n + 1] = <<results[n].product_name, results[n].review,
                           results[n].rating, results[n].analysis>>

\* a completed run over two different rows, every call having failed
C3_Witness ==
    /\ pc = "done"
    /\ NRows = 2
    /\ df.rows[1] # df.rows[2]
    /\ \A n \in 1..Len(outcomes) : ~outcomes[n].ok
    /\ Len(results) = 2

\* C4: the analysis of a row whose call returned is the returned text
\* trimmed; the analysis of a row whose call failed starts with
\* "Error: Could not analyze review." and goes on with the failure detail;
\* a failure stops nothing: with product_name and rating present the script
\* never crashes, and a completed run has had a call for every row.
C4_FailureContained ==
    /\ \A n \in 1..Len(results) :
        IF outcomes[n].ok
        THEN IsTrimOf(results[n].analysis, outcomes[n].text)
        ELSE /\ IsPrefix(<<ErrorHead>>, results[n].analysis)
             /\ \E k \in 2..Len(results[n].analysis) :
                    IsPrefix(outcomes[n].text,
                             SubSeq(results[n].analysis, k, Len(results[n].analysis)))
    /\ ({"product_name", "rating"} \subseteq Columns) => pc # "crashed"
    /\ pc = "done" => Len(outcomes) = NRows

\* a completed run whose first call failed and whose second returned
C4_Witness ==
    /\ pc = "done"
    /\ NRows = 2
    /\ ~outcomes[1].ok /\ outcomes[2].ok
    /\ results[2].analysis = <<"Sentiment:", " ", "Positive">>

\* C5: a completed run over 0 rows has made no call, has no results, and
\* its CSV is the header line product_name,review,rating,analysis alone.
C5_EmptyInputHeaderOnly ==
    (pc = "done" /\ NRows = 0) =>
        /\ sent = <<>>
        /\ results = <<>>
        /\ csv = <<[k \in 1..Len(ResultKeys) |-> <<ResultKeys[k]>>]>>

\* C6: when the file did not parse, or no review column was resolved, no
\* call is made and no table, CSV or download is produced: the script rests
\* at the error.
C6_FileErrorsStopBeforeCalls ==
    (pc = "parse_error" \/ (Loaded /\ review_col = None)) =>
        /\ pc \in {"parse_error", "no_column"}
        /\ sent = <<>> /\ outcomes = <<>> /\ log = <<>>
        /\ result_df = NoDf /\ csv = <<>> /\ download = <<>>

C6_Witness ==
    /\ pc = "parse_error"
    /\ df = NoDf
    /\ sent = <<>>

LacksField == review_col # None /\ ~({"product_name", "rating"} \subseteq Columns)

\* C9 as stated: with a resolved review column and product_name or rating
\* missing, no run completes and no table or download is produced.
C9_MissingFieldNeverCompletes ==
    LacksField => (pc # "done" /\ result_df = NoDf /\ download = <<>>)

\* C9 amended: with a resolved review column, product_name or rating
\* missing and at least one row, the run gets no further than the first
\* row: nothing is appended, no table, CSV or download is produced, and the
\* lookup that fails stops the script (with rating missing before any call,
\* with only product_name missing after the first call).
C9_MissingFieldAbortsAtFirstRow ==
    (LacksField /\ NRows >= 1) =>
        /\ pc \in {"ready", "loop", "call", "append", "crashed"}
        /\ i = 0
        /\ results = <<>>
        /\ result_df = NoDf /\ csv = <<>> /\ download = <<>>
        /\ ("rating" \notin Columns) => (pc \notin {"call", "append"} /\ sent = <<>>)
        /\ pc = "loop" => ("rating" \notin Columns <=> ENABLED BuildPromptKeyError)
        /\ pc = "append" => (ENABLED AppendKeyError /\ ~ENABLED AppendResult)

\* the run over two rows stopped after the first call: product_name missing
C9_Witness ==
    /\ pc = "crashed"
    /\ NRows = 2
    /\ "product_name" \notin Columns
    /\ Len(sent) = 1
    /\ results = <<>>

StepKinds == <<"call", "append", "progress", "sleep">>

\* C10: the steps of a run are, row after row, call, append, progress,
\* pause: each call is preceded by as many pauses as rows came before it,
\* and a completed run ends with the pause of its last row.
C10_PauseAfterEachRow ==
    /\ \A p \in 1..Len(log) :
        log[p] = <<StepKinds[((p - 1) % Len(StepKinds)) + 1], (p - 1) \div Len(StepKinds)>>
    /\ pc \in {"loop", "call"} => Len(log) = Len(StepKinds) * i
    /\ pc = "done" => Len(log) = Len(StepKinds) * NRows

\* a completed run over two rows, the first call failed, the second not
C10_Witness ==
    /\ pc = "done"
    /\ NRows = 2
    /\ ~outcomes[1].ok /\ outcomes[2].ok
    /\ log[4] = <<"sleep", 0>> /\ log[5] = <<"call", 1>> /\ log[8] = <<"sleep", 1>>

Formatted == pf_prompts # <<>>

\* C7 as stated: two rows that differ in product name, review text or
\* rating have different prompts.
C7_AnyFieldChangesPrompt ==
    Formatted =>
        ((\E c \in DOMAIN pf_rows[1] : pf_rows[1][c] # pf_rows[2][c])
            => pf_prompts[1] # pf_prompts[2])

\* C7 amended: the prompt is built from the review text and the rating
\* alone: rows with the same review text and rating have the same prompt
\* whatever their product names, and rows that differ in review text or
\* rating have different prompts when neither review text contains the
\* template's text between the two slots.
C7_ReviewAndRatingDecidePrompt ==
    Formatted =>
        /\ (pf_rows[1]["review"] = pf_rows[2]["review"]
            /\ pf_rows[1]["rating"] = pf_rows[2]["rating"])
                => pf_prompts[1] = pf_prompts[2]
        /\ ((pf_rows[1]["review"] # pf_rows[2]["review"]
              \/ pf_rows[1]["rating"] # pf_rows[2]["rating"])
            /\ PromptMid \notin Range(pf_rows[1]["review"])
            /\ PromptMid \notin Range(pf_rows[2]["review"]))
                => pf_prompts[1] # pf_prompts[2]

\* two rows that differ in rating alone, and their different prompts
C7_Witness ==
    /\ Formatted
    /\ pf_rows[1]["product_name"] = pf_rows[2]["product_name"]
    /\ pf_rows[1]["review"] = pf_rows[2]["review"]
    /\ pf_rows[1]["rating"] # pf_rows[2]["rating"]
    /\ PromptMid \in Range(pf_rows[1]["rating"])
    /\ pf_prompts[1] # pf_prompts[2]

====
